---- MODULE Spec2Model ----
(***************************************************************************)
(* Model of the merge -> compress -> PDF/A pipeline of                     *)
(* pdf_merge_compress_tool.  The repository holds two variants of the      *)
(* same program, src/pdf_tool_gui_logs.py (English configuration keys)     *)
(* and src/acionador_ghostscript.py (Portuguese configuration keys, page   *)
(* ranges).  The variable impl says which of the two is running; every     *)
(* action follows the code of the variant that impl names.                 *)
(*                                                                         *)
(* Python values are encoded with uniform record shapes:                   *)
(*   - a local variable is [st, v]: st = "unbound" before its first        *)
(*     assignment, "none" for None, "set" for a string;                    *)
(*   - None / "" / 0 of an optional dictionary entry are the falsy values  *)
(*     "" and 0 (the code only tests truthiness of these entries);         *)
(*   - an element of an argument vector is [ty, pre, s, n, n2]: ty = "str" *)
(*     for the string pre + s (or pre + n when produced from a number),    *)
(*     any other ty is a non-string object put into the vector as it is.   *)
(***************************************************************************)
EXTENDS Integers, Sequences, FiniteSets, TLC

\* ---------------------------------------------------------------- bounds
MaxItems == 2

\* ------------------------------------------------------------ the variants
GuiLogs == "pdf_tool_gui_logs"
Acionador == "acionador_ghostscript"
Impls == {GuiLogs, Acionador}

VARIABLES
    impl,                 \* which source file is running
    config,               \* the loaded configuration (yaml.safe_load result)
    pdfa_def_exists,      \* os.path.exists(pdfa_def)
    pc,                   \* position inside process()
    merge_files,          \* local merge_files: [st, v]
    output_merge,         \* local output_merge / saida_juncao: [st, v]
    cmd,                  \* local cmd
    idx,                  \* position of the for loop over merge_files
    messages,             \* local messages
    input_for_next_step,  \* local input_for_next_step: [st, v]
    calls,                \* history of run_gs calls, in order
    reports,              \* messagebox calls, in order
    crashed,              \* "" or the name of the exception that left process()
    log,                  \* lines appended to the log file, in order
    pickerCalls           \* number of filedialog.askopenfilenames calls

vars == <<impl, config, pdfa_def_exists, pc, merge_files, output_merge, cmd, idx,
          messages, input_for_next_step, calls, reports, crashed, log, pickerCalls>>

\* ------------------------------------------------------------ Python values
Unbound == [st |-> "unbound", v |-> ""]
None == [st |-> "none", v |-> ""]
Str(s) == [st |-> "set", v |-> s]

\* a dictionary entry: absent, or present with a string value
Missing == [has |-> FALSE, v |-> ""]
Val(s) == [has |-> TRUE, v |-> s]

StrArg(pre, s) == [ty |-> "str", pre |-> pre, s |-> s, n |-> 0, n2 |-> 0]
NumArg(pre, n) == [ty |-> "str", pre |-> pre, s |-> "", n |-> n, n2 |-> 0]
RawArg(item) == [ty |-> item.ty, pre |-> "", s |-> item.arquivo,
                 n |-> item.pagina_inicial, n2 |-> item.pagina_final]

\* merge input items of the configuration
BarePath(p) == [ty |-> "str", arquivo |-> p, pagina_inicial |-> 0, pagina_final |-> 0]
Structured(p, f, l) == [ty |-> "dict", arquivo |-> p, pagina_inicial |-> f, pagina_final |-> l]
Other == [ty |-> "int", arquivo |-> "", pagina_inicial |-> 0, pagina_final |-> 0]

Items ==
    {BarePath("a.pdf"), BarePath("b.pdf"), Other, Structured("", 0, 0)}
    \cup {Structured("c.pdf", f, l) : f \in {0, 2}, l \in {0, 4}}

SeqsUpTo(S, n) == UNION {[1..k -> S] : k \in 0..n}

\* what the file picker can return: a tuple of paths
Picked == {<<>>, <<BarePath("p.pdf")>>}

OutputChoices(default) == {Val(default), Val(""), Missing}

Stage(enabled, out) == [enabled |-> enabled, output |-> out]

Configs ==
    {[merge |-> [enabled |-> m.enabled, output |-> m.output, files |-> fs],
      compress |-> c, pdfa |-> p] :
        m \in {Stage(FALSE, Missing)} \cup {Stage(TRUE, o) : o \in OutputChoices("merged.pdf")},
        fs \in SeqsUpTo(Items, MaxItems),
        c \in {Stage(FALSE, Missing)} \cup {Stage(TRUE, o) : o \in OutputChoices("small.pdf")},
        p \in {Stage(FALSE, Missing)} \cup {Stage(TRUE, o) : o \in OutputChoices("pdfa.pdf")}}

\* config["paths"]["ghostscript"], config["settings"]["compression"] and the
\* path resolved for PDFA_def.ps
gs == "gs"
level == "ebook"
pdfa_def == "lib/PDFA_def.ps"


\* ------------------------------------------------------------------ logging
\* log_write(log_file, text): one appended line, kept as a fixed text and the
\* value formatted into it
Line(tag, arg) == [tag |-> tag, arg |-> arg]
L(tag) == Line(tag, StrArg("", ""))
log_write(lg, line) == Append(lg, line)

\* ------------------------------------------------------------ the engine
\* what subprocess.run can do with a well-formed argument vector
Outcomes ==
    {[kind |-> "exit", code |-> 0, stdout |-> "", stderr |-> "", exc |-> ""],
     [kind |-> "exit", code |-> 1, stdout |-> "", stderr |-> "disk full", exc |-> ""],
     [kind |-> "exit", code |-> 2, stdout |-> "", stderr |-> "", exc |-> ""],
     [kind |-> "exc", code |-> 0, stdout |-> "", stderr |-> "", exc |-> "FileNotFoundError"]}

\* subprocess.run raises TypeError when an element of the vector is not a string
TypeErrorOutcome ==
    [kind |-> "exc", code |-> 0, stdout |-> "", stderr |-> "", exc |-> "TypeError"]

AllStrings(c) == \A i \in 1..Len(c) : c[i].ty = "str"

subprocess_run(c, o) == IF AllStrings(c) THEN o ELSE TypeErrorOutcome

\* run_gs with the exit code never looked at: only an exception is a failure
run_gs_ignoring_exit_code(c, o, lg) ==
    LET pre == log_write(log_write(lg, L("--- Running Ghostscript Command ---")), L("Command:"))
               \o [i \in 1..Len(c) |-> Line("  ", c[i])]
        result == subprocess_run(c, o)
        out == pre \o <<L("STDOUT:"), Line("stdout.strip()", StrArg("", result.stdout)),
                        L("STDERR:"), Line("stderr.strip()", StrArg("", result.stderr))>>
    IN  IF result.kind = "exc"
        THEN [ok |-> FALSE, err |-> result.exc, spawnAt |-> Len(pre), result |-> result,
              log |-> log_write(pre, Line("EXCEPTION: ", StrArg("", result.exc)))]
        ELSE [ok |-> TRUE, err |-> "", spawnAt |-> Len(pre), result |-> result,
              log |-> log_write(out, L("SUCCESS (exit code 0)"))]

\* run_gs with failure decided by a non-empty stderr instead of the exit code
run_gs_by_stderr(c, o, lg) ==
    LET pre == log_write(log_write(lg, L("--- Running Ghostscript Command ---")), L("Command:"))
               \o [i \in 1..Len(c) |-> Line("  ", c[i])]
        result == subprocess_run(c, o)
        out == pre \o <<L("STDOUT:"), Line("stdout.strip()", StrArg("", result.stdout)),
                        L("STDERR:"), Line("stderr.strip()", StrArg("", result.stderr))>>
    IN  IF result.kind = "exc"
        THEN [ok |-> FALSE, err |-> result.exc, spawnAt |-> Len(pre), result |-> result,
              log |-> log_write(pre, Line("EXCEPTION: ", StrArg("", result.exc)))]
        ELSE IF result.stderr # ""
        THEN [ok |-> FALSE, err |-> result.stderr, spawnAt |-> Len(pre), result |-> result,
              log |-> log_write(out, Line("ERROR: Exit code ", NumArg("", result.code)))]
        ELSE [ok |-> TRUE, err |-> "", spawnAt |-> Len(pre), result |-> result,
              log |-> log_write(out, L("SUCCESS (exit code 0)"))]

\* run_gs that logs the captured stdout but forgets the captured stderr
run_gs_without_stderr_log(c, o, lg) ==
    LET pre == log_write(log_write(lg, L("--- Running Ghostscript Command ---")), L("Command:"))
               \o [i \in 1..Len(c) |-> Line("  ", c[i])]
        result == subprocess_run(c, o)
        out == pre \o <<L("STDOUT:"), Line("stdout.strip()", StrArg("", result.stdout))>>
    IN  IF result.kind = "exc"
        THEN [ok |-> FALSE, err |-> result.exc, spawnAt |-> Len(pre), result |-> result,
              log |-> log_write(pre, Line("EXCEPTION: ", StrArg("", result.exc)))]
        ELSE IF result.code # 0
        THEN [ok |-> FALSE, err |-> result.stderr, spawnAt |-> Len(pre), result |-> result,
              log |-> log_write(out, Line("ERROR: Exit code ", NumArg("", result.code)))]
        ELSE [ok |-> TRUE, err |-> "", spawnAt |-> Len(pre), result |-> result,
              log |-> log_write(out, L("SUCCESS (exit code 0)"))]

\* run_gs(cmd, log_file) with lg the log so far and o the engine's behaviour:
\* the returned pair (ok, err), the log afterwards, and the log length at the
\* moment subprocess.run is called
run_gs(c, o, lg) ==
    LET pre == log_write(log_write(lg, L("--- Running Ghostscript Command ---")), L("Command:"))
               \o [i \in 1..Len(c) |-> Line("  ", c[i])]
        result == subprocess_run(c, o)
        out == pre \o <<L("STDOUT:"), Line("stdout.strip()", StrArg("", result.stdout)),
                        L("STDERR:"), Line("stderr.strip()", StrArg("", result.stderr))>>
    IN  IF result.kind = "exc"
        THEN [ok |-> FALSE, err |-> result.exc, spawnAt |-> Len(pre), result |-> result,
              log |-> log_write(pre, Line("EXCEPTION: ", StrArg("", result.exc)))]
        ELSE IF result.code # 0
        THEN [ok |-> FALSE, err |-> result.stderr, spawnAt |-> Len(pre), result |-> result,
              log |-> log_write(out, Line("ERROR: Exit code ", NumArg("", result.code)))]
        ELSE [ok |-> TRUE, err |-> "", spawnAt |-> Len(pre), result |-> result,
              log |-> log_write(out, L("SUCCESS (exit code 0)"))]

\* the history entry of one run_gs call made for a stage
Call(stage, c, r) ==
    [stage |-> stage, argv |-> c, result |-> r.result, ok |-> r.ok, err |-> r.err,
     spawnAt |-> r.spawnAt, retAt |-> Len(r.log)]

\* ------------------------------------------------------------------ reports
showerror(title, text) == [kind |-> "error", title |-> title, text |-> text, msgs |-> <<>>]
showinfo(title, msgs) == [kind |-> "info", title |-> title, text |-> "", msgs |-> msgs]

\* a success message that names the wrong file: the stage's input
Message_naming_input(stage, text, path) ==
    [stage |-> stage, text |-> text, path |-> input_for_next_step.v]

Message(stage, text, path) == [stage |-> stage, text |-> text, path |-> path]

\* ---------------------------------------------------------------- the start
Init ==
    /\ impl \in Impls
    /\ config \in Configs
    /\ pdfa_def_exists \in BOOLEAN
    /\ pc = "preflight"
    /\ merge_files = [st |-> "unbound", v |-> <<>>]
    /\ output_merge = Unbound
    /\ cmd = <<>>
    /\ idx = 0
    /\ messages = <<>>
    /\ input_for_next_step = Unbound
    /\ calls = <<>>
    /\ reports = <<>>
    /\ crashed = ""
    /\ log = <<>>
    /\ pickerCalls = 0

\* an exception that nothing in process() catches: the callback ends there
Raise(exc) ==
    /\ crashed' = exc
    /\ pc' = "done"

\* the pre-flight test made only when the PDF/A stage is enabled
PreflightOk_only_for_pdfa == pdfa_def_exists \/ ~config.pdfa.enabled

\* the pre-flight test: os.path.exists(pdfa_def), whatever stages are enabled
PreflightOk == pdfa_def_exists

\* process(), from the start of logging to the PDFA_def.ps check
Preflight ==
    /\ pc = "preflight"
    /\ LET lg == log \o <<L("=== PDF Processing Log Started ==="), L("Timestamp: "),
                          L("----------------------------------"),
                          Line("Ghostscript path: ", StrArg("", gs)),
                          Line("PDF/A definition file: ", StrArg("", pdfa_def))>>
       IN  IF ~PreflightOk
           THEN /\ log' = log_write(lg, Line("PDFA_def.ps não encontrado em:", StrArg("", pdfa_def)))
                /\ reports' = Append(reports, showerror("Erro", "PDFA_def.ps não encontrado em:"))
                /\ pc' = "done"
           ELSE /\ log' = lg
                /\ pc' = "merge"
                /\ UNCHANGED reports
    /\ messages' = <<>>
    /\ UNCHANGED <<impl, config, pdfa_def_exists, merge_files, output_merge, cmd, idx,
                   input_for_next_step, calls, crashed, pickerCalls>>

\* texts that differ between the two variants
MergeEnabledText == IF impl = GuiLogs THEN "Merge stage enabled." ELSE "Estágio de junção ativado."
MergeInputsText == IF impl = GuiLogs THEN "Merge input files: " ELSE "Arquivos de entrada para junção: "
NoMergeFilesText == IF impl = GuiLogs THEN "Nenhum arquivo para merge." ELSE "Nenhum arquivo para juntar."
MergeErrorTitle == IF impl = GuiLogs THEN "Erro no Merge" ELSE "Erro na junção "
MergeOkText == IF impl = GuiLogs THEN "Merge OK → " ELSE "Junção OK → "
NoCompressInputText == IF impl = GuiLogs THEN "Nenhum PDF para compressão." ELSE "Nenhum PDF para compactação."
CompressErrorTitle == IF impl = GuiLogs THEN "Erro na Compressão" ELSE "Erro na Compactação"
CompressEnabledText == IF impl = GuiLogs THEN "Compression stage enabled." ELSE "Estágio de compressão ativado."
CompressLevelText == IF impl = GuiLogs THEN "Compression level: " ELSE "Nível de compactação: "
PdfaEnabledText == IF impl = GuiLogs THEN "PDF/A stage enabled." ELSE "Estágio de criação de PDF/A ativado."

\* the else branch of the merge block: only pdf_tool_gui_logs.py has one
MergeDisabled ==
    /\ IF impl = GuiLogs
       THEN /\ input_for_next_step' = None
            /\ pc' = "compress"
       ELSE /\ pc' = "merge_cmd"
            /\ UNCHANGED input_for_next_step
    /\ UNCHANGED <<merge_files, output_merge, reports, crashed, log, pickerCalls>>

\* the picker consulted whatever the configured list holds
AskPicker_always(files) == TRUE

\* `if not merge_files:` on the configured list: the picker is consulted
AskPicker(files) == files = <<>>

\* the merge block up to the read of the output path
MergeSetup ==
    /\ pc = "merge"
    /\ IF config.merge.enabled
       THEN \E picked \in (IF AskPicker(config.merge.files) THEN Picked ELSE {<<>>}) :
              LET ask == AskPicker(config.merge.files)
                  files == IF ask THEN picked ELSE config.merge.files
                  lg == log_write(log_write(log, L(MergeEnabledText)), L(MergeInputsText))
              IN  /\ pickerCalls' = pickerCalls + (IF ask THEN 1 ELSE 0)
                  /\ merge_files' = [st |-> "set", v |-> files]
                  /\ UNCHANGED input_for_next_step
                  /\ IF files = <<>>
                     THEN /\ log' = log_write(lg, L(NoMergeFilesText))
                          /\ reports' = Append(reports, showerror("Erro", NoMergeFilesText))
                          /\ pc' = "done"
                          /\ UNCHANGED <<output_merge, crashed>>
                     ELSE /\ log' = lg
                          /\ UNCHANGED reports
                          /\ IF ~config.merge.output.has
                             THEN Raise("KeyError") /\ UNCHANGED output_merge
                             ELSE /\ output_merge' = Str(config.merge.output.v)
                                  /\ pc' = "merge_cmd"
                                  /\ UNCHANGED crashed
       ELSE MergeDisabled
    /\ UNCHANGED <<impl, config, pdfa_def_exists, cmd, idx, messages, calls>>


\* the fixed head of the merge command
MergeFlags(out) ==
    <<StrArg("", gs), StrArg("", "-dBATCH"), StrArg("", "-dNOPAUSE"),
      StrArg("", "-sDEVICE=pdfwrite"), StrArg("-sOutputFile=", out)>>

\* pdf_tool_gui_logs.py: the command is the fixed head plus merge_files as they
\* are, and the engine runs once
MergeRunGuiLogs ==
    /\ pc = "merge_cmd"
    /\ impl = GuiLogs
    /\ \E o \in Outcomes :
         LET c == MergeFlags(output_merge.v) \o [i \in 1..Len(merge_files.v) |-> RawArg(merge_files.v[i])]
             r == run_gs(c, o, log)
         IN  /\ cmd' = c
             /\ log' = r.log
             /\ calls' = Append(calls, Call("merge", c, r))
             /\ IF ~r.ok
                THEN /\ reports' = Append(reports, showerror(MergeErrorTitle, r.err))
                     /\ pc' = "done"
                     /\ UNCHANGED <<messages, input_for_next_step>>
                ELSE /\ messages' = Append(messages, Message("merge", MergeOkText, output_merge.v))
                     /\ input_for_next_step' = output_merge
                     /\ pc' = "compress"
                     /\ UNCHANGED reports
    /\ UNCHANGED <<impl, config, pdfa_def_exists, merge_files, output_merge, idx, crashed, pickerCalls>>

\* acionador_ghostscript.py: the command head is built after the merge block,
\* whether or not the block ran
MergeCmdAcionador ==
    /\ pc = "merge_cmd"
    /\ impl = Acionador
    /\ IF output_merge.st = "unbound"
       THEN Raise("UnboundLocalError") /\ UNCHANGED <<cmd, idx>>
       ELSE /\ cmd' = MergeFlags(output_merge.v)
            /\ idx' = 1
            /\ pc' = "merge_loop"
            /\ UNCHANGED crashed
    /\ UNCHANGED <<impl, config, pdfa_def_exists, merge_files, output_merge, messages,
                   input_for_next_step, calls, reports, log, pickerCalls>>

\* what one item of merge_files appends to cmd
ItemArgs(item) ==
    IF item.ty = "str" THEN <<StrArg("", item.arquivo)>>
    ELSE IF item.ty = "dict"
    THEN (IF item.pagina_inicial # 0 THEN <<NumArg("-dFirstPage=", item.pagina_inicial)>> ELSE <<>>)
         \o (IF item.pagina_final # 0 THEN <<NumArg("-dLastPage=", item.pagina_final)>> ELSE <<>>)
         \o <<StrArg("", item.arquivo)>>
    ELSE <<>>

\* where the for loop goes after the item at idx
AfterItem == IF idx = Len(merge_files.v) THEN "compress" ELSE "merge_loop"

\* acionador_ghostscript.py: one pass of the for loop over merge_files; the
\* engine call and its handling are inside the loop body
MergeLoopAcionador ==
    /\ pc = "merge_loop"
    /\ impl = Acionador
    /\ LET item == merge_files.v[idx]
       IN  IF item.ty = "dict" /\ item.arquivo = ""
           THEN \* continue
                /\ idx' = idx + 1
                /\ pc' = AfterItem
                /\ UNCHANGED <<cmd, log, calls, reports, messages, input_for_next_step>>
           ELSE \E o \in Outcomes :
                  LET c == cmd \o ItemArgs(item)
                      lg == IF item.ty \notin {"str", "dict"}
                            THEN log_write(log, Line("Entrada não reconhecida em 'arquivos': ", RawArg(item)))
                            ELSE log
                      r == run_gs(c, o, lg)
                  IN  /\ cmd' = c
                      /\ log' = r.log
                      /\ calls' = Append(calls, Call("merge", c, r))
                      /\ IF ~r.ok
                         THEN /\ reports' = Append(reports, showerror(MergeErrorTitle, r.err))
                              /\ pc' = "done"
                              /\ UNCHANGED <<messages, input_for_next_step, idx>>
                         ELSE /\ messages' = Append(messages, Message("merge", MergeOkText, output_merge.v))
                              /\ input_for_next_step' = output_merge
                              /\ idx' = idx + 1
                              /\ pc' = AfterItem
                              /\ UNCHANGED reports
    /\ UNCHANGED <<impl, config, pdfa_def_exists, merge_files, output_merge, crashed, pickerCalls>>

CompressCmd(out, input) ==
    <<StrArg("", gs), StrArg("", "-dBATCH"), StrArg("", "-dNOPAUSE"),
      StrArg("", "-sDEVICE=pdfwrite"), StrArg("-dPDFSETTINGS=/", level),
      StrArg("-sOutputFile=", out), StrArg("", input)>>

\* the compress block forgetting to hand its output on
NextInputAfterCompress_stale(out) == input_for_next_step

\* input_for_next_step = output_compress, after a successful compression
NextInputAfterCompress(out) == Str(out)

\* the compress block
Compress ==
    /\ pc = "compress"
    /\ IF ~config.compress.enabled
       THEN /\ pc' = "pdfa"
            /\ UNCHANGED <<cmd, messages, input_for_next_step, calls, reports, crashed, log>>
       ELSE IF input_for_next_step.st = "unbound"
       THEN /\ Raise("UnboundLocalError")
            /\ log' = log_write(log, L(CompressEnabledText))
            /\ UNCHANGED <<cmd, messages, input_for_next_step, calls, reports>>
       ELSE IF input_for_next_step.st = "none"
       THEN /\ reports' = Append(reports, showerror("Erro", NoCompressInputText))
            /\ pc' = "done"
            /\ log' = log_write(log, L(CompressEnabledText))
            /\ UNCHANGED <<cmd, messages, input_for_next_step, calls, crashed>>
       ELSE IF ~config.compress.output.has
       THEN /\ Raise("KeyError")
            /\ log' = log_write(log, L(CompressEnabledText))
            /\ UNCHANGED <<cmd, messages, input_for_next_step, calls, reports>>
       ELSE \E o \in Outcomes :
              LET output_compress == config.compress.output.v
                  c == CompressCmd(output_compress, input_for_next_step.v)
                  r == run_gs(c, o, log_write(log_write(log, L(CompressEnabledText)),
                                              Line(CompressLevelText, StrArg("", level))))
              IN  /\ cmd' = c
                  /\ log' = r.log
                  /\ calls' = Append(calls, Call("compress", c, r))
                  /\ UNCHANGED crashed
                  /\ IF ~r.ok
                     THEN /\ reports' = Append(reports, showerror(CompressErrorTitle, r.err))
                          /\ pc' = "done"
                          /\ UNCHANGED <<messages, input_for_next_step>>
                     ELSE /\ messages' = Append(messages, Message("compress", "Compressão OK → ", output_compress))
                          /\ input_for_next_step' = NextInputAfterCompress(output_compress)
                          /\ pc' = "pdfa"
                          /\ UNCHANGED reports
    /\ UNCHANGED <<impl, config, pdfa_def_exists, merge_files, output_merge, idx, pickerCalls>>

PdfaCmd(out, input) ==
    <<StrArg("", gs), StrArg("", "-dPDFA=2"), StrArg("", "-sDEVICE=pdfwrite"),
      StrArg("", "-dNOPAUSE"), StrArg("", "-dBATCH"), StrArg("", "-dNOOUTERSAVE"),
      StrArg("", "-sColorConversionStrategy=RGB"), StrArg("", "-sProcessColorModel=DeviceRGB"),
      StrArg("-sOutputFile=", out), StrArg("", "-dPDFACompatibilityPolicy=1"),
      StrArg("", pdfa_def), StrArg("", input)>>

\* the PDF/A block
Pdfa ==
    /\ pc = "pdfa"
    /\ IF ~config.pdfa.enabled
       THEN /\ pc' = "finish"
            /\ UNCHANGED <<cmd, messages, calls, reports, crashed, log>>
       ELSE IF input_for_next_step.st = "unbound"
       THEN /\ Raise("UnboundLocalError")
            /\ log' = log_write(log, L(PdfaEnabledText))
            /\ UNCHANGED <<cmd, messages, calls, reports>>
       ELSE IF input_for_next_step.st = "none"
       THEN /\ reports' = Append(reports, showerror("Erro", "Nenhum PDF para PDF/A."))
            /\ pc' = "done"
            /\ log' = log_write(log, L(PdfaEnabledText))
            /\ UNCHANGED <<cmd, messages, calls, crashed>>
       ELSE IF ~config.pdfa.output.has
       THEN /\ Raise("KeyError")
            /\ log' = log_write(log, L(PdfaEnabledText))
            /\ UNCHANGED <<cmd, messages, calls, reports>>
       ELSE \E o \in Outcomes :
              LET output_pdfa == config.pdfa.output.v
                  c == PdfaCmd(output_pdfa, input_for_next_step.v)
                  r == run_gs(c, o, log_write(log_write(log, L(PdfaEnabledText)),
                                              Line("PDF/A profile: ", StrArg("", "PDF/A-2b"))))
              IN  /\ cmd' = c
                  /\ log' = r.log
                  /\ calls' = Append(calls, Call("pdfa", c, r))
                  /\ UNCHANGED crashed
                  /\ IF ~r.ok
                     THEN /\ reports' = Append(reports, showerror("Erro PDF/A", r.err))
                          /\ pc' = "done"
                          /\ UNCHANGED messages
                     ELSE /\ messages' = Append(messages, Message("pdfa", "PDF/A OK → ", output_pdfa))
                          /\ pc' = "finish"
                          /\ UNCHANGED reports
    /\ UNCHANGED <<impl, config, pdfa_def_exists, merge_files, output_merge, idx,
                   input_for_next_step, pickerCalls>>

\* the end of process(): the success report
Finish ==
    /\ pc = "finish"
    /\ log' = log_write(log, L("=== Process Finished ==="))
    /\ reports' = Append(reports, showinfo("Concluído", messages))
    /\ pc' = "done"
    /\ UNCHANGED <<impl, config, pdfa_def_exists, merge_files, output_merge, cmd, idx,
                   messages, input_for_next_step, calls, crashed, pickerCalls>>

Next ==
    \/ Preflight
    \/ MergeSetup
    \/ MergeRunGuiLogs
    \/ MergeCmdAcionador
    \/ MergeLoopAcionador
    \/ Compress
    \/ Pdfa
    \/ Finish

Spec == Init /\ [][Next]_vars


\* ======================================================================
\* Properties
\* ======================================================================
Last(q) == q[Len(q)]

\* what the engine did in a call, read from the child process itself
CallFailed(c) == c.result.kind = "exc" \/ c.result.code # 0
ErrorDetail(c) == IF c.result.kind = "exc" THEN c.result.exc ELSE c.result.stderr
ExitedZero(c) == c.result.kind = "exit" /\ c.result.code = 0

ValidOutput(st) == st.enabled /\ st.output.has /\ st.output.v # ""
WellFormed(item) == item.ty = "str" \/ (item.ty = "dict" /\ item.arquivo # "")
AllWellFormed(fs) == \A i \in 1..Len(fs) : WellFormed(fs[i])
AllBare(fs) == \A i \in 1..Len(fs) : fs[i].ty = "str"

\* C1: once an engine invocation fails (nonzero exit or spawn exception) it
\* is the last invocation of the run, the run has ended with exactly one
\* report, an error whose text is that invocation's error detail, and no
\* success report is shown.
C1_FailureHalts ==
    \A i \in 1..Len(calls) :
        CallFailed(calls[i]) =>
            /\ i = Len(calls)
            /\ pc = "done"
            /\ Len(reports) = 1
            /\ reports[1].kind = "error"
            /\ reports[1].text = ErrorDetail(calls[i])

\* C1 witness: the compression exited 1 with "disk full" while the PDF/A
\* stage was enabled and waiting
C1_Witness ==
    /\ config.pdfa.enabled
    /\ calls # <<>>
    /\ Last(calls).stage = "compress"
    /\ Last(calls).result.code = 1
    /\ Last(calls).result.stderr = "disk full"

\* C2 (as stated): with the three stages enabled with valid outputs, merge
\* inputs that are all well formed, the definition file present and every
\* engine invocation exiting 0, the finished run reports exactly three
\* messages: merge, compress, archive, each with its own output path.
C2_ThreeMessages ==
    ( /\ pc = "done"
      /\ pdfa_def_exists
      /\ ValidOutput(config.merge) /\ ValidOutput(config.compress) /\ ValidOutput(config.pdfa)
      /\ merge_files.st = "set" /\ merge_files.v # <<>> /\ AllWellFormed(merge_files.v)
      /\ \A i \in 1..Len(calls) : ExitedZero(calls[i]) )
    => /\ Len(reports) = 1
       /\ reports[1].kind = "info"
       /\ Len(reports[1].msgs) = 3
       /\ reports[1].msgs[1].stage = "merge" /\ reports[1].msgs[1].path = config.merge.output.v
       /\ reports[1].msgs[2].stage = "compress" /\ reports[1].msgs[2].path = config.compress.output.v
       /\ reports[1].msgs[3].stage = "pdfa" /\ reports[1].msgs[3].path = config.pdfa.output.v

\* C3 (as stated): after a successful archive invocation the artifact is the
\* archive stage's output path.
C3_ArchiveSetsArtifact ==
    (calls # <<>> /\ Last(calls).stage = "pdfa" /\ Last(calls).ok)
    => input_for_next_step = Str(config.pdfa.output.v)

\* C3 (amended): a successful merge or compress invocation leaves the
\* artifact set to that stage's output path; a successful archive invocation
\* leaves the artifact as it was, the path the archive stage read as input.
C3_ArtifactAfterSuccess ==
    (calls # <<>> /\ Last(calls).ok) =>
        /\ Last(calls).stage = "merge" => input_for_next_step = Str(config.merge.output.v)
        /\ Last(calls).stage = "compress" => input_for_next_step = Str(config.compress.output.v)
        /\ Last(calls).stage = "pdfa" =>
              /\ input_for_next_step.st = "set"
              /\ Last(Last(calls).argv) = StrArg("", input_for_next_step.v)
              /\ Len(calls) > 1
              /\ Last(SubSeq(calls, 1, Len(calls) - 1)).stage \in {"merge", "compress"}
              /\ input_for_next_step.v =
                    config[Last(SubSeq(calls, 1, Len(calls) - 1)).stage].output.v

\* C3 witness: the archive stage succeeded after a successful compression
\* whose output differs from the archive output
C3_Witness ==
    /\ Len(calls) >= 3
    /\ Last(calls).stage = "pdfa" /\ Last(calls).ok
    /\ calls[Len(calls) - 1].stage = "compress"
    /\ config.compress.output.v # config.pdfa.output.v
    /\ config.compress.output.v # config.merge.output.v

\* C4 (as stated): with the three stages disabled and the definition file
\* present, the finished run shows an empty success list and made no engine
\* invocation.
C4_AllDisabled ==
    ( /\ pc = "done"
      /\ pdfa_def_exists
      /\ ~config.merge.enabled /\ ~config.compress.enabled /\ ~config.pdfa.enabled )
    => /\ reports = <<showinfo("Concluído", <<>>)>>
       /\ calls = <<>>
       /\ crashed = ""

\* C5 (as stated): with compress enabled, merge disabled and the definition
\* file present, the finished run reported the missing-input failure and made
\* no engine invocation for compression.
C5_CompressWithoutInput ==
    ( /\ pc = "done"
      /\ pdfa_def_exists
      /\ ~config.merge.enabled /\ config.compress.enabled )
    => /\ Len(reports) = 1
       /\ reports[1] = showerror("Erro", NoCompressInputText)
       /\ \A i \in 1..Len(calls) : calls[i].stage # "compress"

\* C6: when the definition file is missing no engine invocation is ever
\* made, no stage is entered, and the finished run shows exactly one report,
\* an error, whatever stages are enabled.
C6_MissingDefinitionFile ==
    ~pdfa_def_exists =>
        /\ calls = <<>>
        /\ messages = <<>>
        /\ pc \in {"preflight", "done"}
        /\ pc = "done" => ( /\ Len(reports) = 1
                            /\ reports[1].kind = "error"
                            /\ crashed = "" )

\* C6 witness: the run ended on the missing definition file with the merge
\* and compress stages enabled and the PDF/A stage disabled
C6_Witness ==
    /\ ~pdfa_def_exists
    /\ pc = "done"
    /\ config.merge.enabled /\ config.compress.enabled /\ ~config.pdfa.enabled
    /\ config.merge.files # <<>>


\* ---- reading a merge argument vector back, item by item
FixedMergeHead(c) ==
    /\ Len(c) >= 5
    /\ c[1] = StrArg("", gs)
    /\ c[2] = StrArg("", "-dBATCH")
    /\ c[3] = StrArg("", "-dNOPAUSE")
    /\ c[4] = StrArg("", "-sDEVICE=pdfwrite")
    /\ c[5] = StrArg("-sOutputFile=", config.merge.output.v)

IsPageFlag(a) == a.ty = "str" /\ a.pre \in {"-dFirstPage=", "-dLastPage="}
Tail5(c) == SubSeq(c, 6, Len(c))
\* positions of the arguments that are not page-range flags: one per item
ItemPositions(t) == {i \in 1..Len(t) : ~IsPageFlag(t[i])}
KthItemPosition(t, k) ==
    CHOOSE p \in ItemPositions(t) : Cardinality({q \in ItemPositions(t) : q <= p}) = k
\* the page-range flags standing immediately before position p
FlagRun(t, p) == {j \in 1..(p - 1) : \A k \in j..(p - 1) : IsPageFlag(t[k])}
\* the items of merge_files that have a path, in order
Contributing(fs) == SelectSeq(fs, WellFormed)

\* the flags an item asks for
WantedFlags(item) ==
    IF item.ty # "dict" THEN {}
    ELSE {NumArg("-dFirstPage=", item.pagina_inicial) : x \in {y \in {1} : item.pagina_inicial # 0}}
         \cup {NumArg("-dLastPage=", item.pagina_final) : x \in {y \in {1} : item.pagina_final # 0}}

PageFlagsInPlace(c, fs) ==
    LET t == Tail5(c)
        w == Contributing(fs)
    IN  \A k \in 1..Len(w) :
            k <= Cardinality(ItemPositions(t)) =>
                LET p == KthItemPosition(t, k)
                IN  /\ {t[j] : j \in FlagRun(t, p)} = WantedFlags(w[k])
                    /\ WantedFlags(w[k]) # {} => t[p] = StrArg("", w[k].arquivo)

\* C7 (as stated): in every argument vector of a merge invocation, each
\* item's path is preceded immediately by exactly that item's own first-page
\* and last-page flags, and by no page-range flag when the item has none.
C7_PageFlagsBeforeOwnPath ==
    \A i \in 1..Len(calls) :
        calls[i].stage = "merge" => PageFlagsInPlace(calls[i].argv, merge_files.v)

\* C8 (as stated): when the merge inputs are all bare paths, every merge
\* invocation's argument vector is the engine path and the fixed flags
\* followed by all the paths in their original order, with no page-range flag.
C8_BarePathsCommand ==
    \A i \in 1..Len(calls) :
        (calls[i].stage = "merge" /\ AllBare(merge_files.v)) =>
            /\ FixedMergeHead(calls[i].argv)
            /\ Tail5(calls[i].argv) =
                  [k \in 1..Len(merge_files.v) |-> StrArg("", merge_files.v[k].arquivo)]

\* C9 (as stated): with only the merge stage enabled, well-formed inputs and
\* an engine that exits 0, the finished run reports exactly one message, the
\* merge message with the merge output path.
C9_OneMergeMessage ==
    ( /\ pc = "done"
      /\ pdfa_def_exists
      /\ ValidOutput(config.merge) /\ ~config.compress.enabled /\ ~config.pdfa.enabled
      /\ merge_files.st = "set" /\ merge_files.v # <<>> /\ AllWellFormed(merge_files.v)
      /\ \A i \in 1..Len(calls) : ExitedZero(calls[i]) )
    => /\ Len(reports) = 1
       /\ reports[1].kind = "info"
       /\ Len(reports[1].msgs) = 1
       /\ reports[1].msgs[1].stage = "merge"
       /\ reports[1].msgs[1].path = config.merge.output.v

\* C10: every run_gs call returned success exactly when the child exited with
\* code 0; after a nonzero exit it returned failure with the captured stderr,
\* after an exception failure with the exception's text, and the exception
\* did not leave process() (the run ended with its report).
C10_RunnerClassifies ==
    \A i \in 1..Len(calls) :
        /\ calls[i].ok <=> ExitedZero(calls[i])
        /\ calls[i].ok => calls[i].err = ""
        /\ (calls[i].result.kind = "exit" /\ calls[i].result.code # 0)
              => (~calls[i].ok /\ calls[i].err = calls[i].result.stderr)
        /\ calls[i].result.kind = "exc"
              => (~calls[i].ok /\ calls[i].err = calls[i].result.exc /\ crashed = "")

\* C10 witness: the history holds a call that exited 0 followed by one that
\* exited with a nonzero code and nothing on stderr, in one run, and a call
\* that could not be spawned, in another
C10_Witness ==
    /\ Len(calls) >= 2
    /\ ExitedZero(calls[1])
    /\ \/ Last(calls).result.kind = "exit" /\ Last(calls).result.code = 2
             /\ Last(calls).result.stderr = "" /\ Last(calls).stage = "pdfa"
       \/ Last(calls).result.kind = "exc" /\ Last(calls).result.exc = "FileNotFoundError"
             /\ Last(calls).stage = "pdfa"

\* every enabled stage has an output path in the configuration
OutputsPresent ==
    \A s \in {"merge", "compress", "pdfa"} : config[s].enabled => ValidOutput(config[s])

\* C11 (as stated): a finished run whose configuration names an output for
\* every enabled stage has shown exactly one report: the success list, and
\* then no engine invocation failed, or one error.
C11_ExactlyOneReport ==
    (pc = "done" /\ OutputsPresent) =>
        /\ Len(reports) = 1
        /\ reports[1].kind \in {"info", "error"}
        /\ reports[1].kind = "info" =>
              /\ reports[1].msgs = messages
              /\ \A i \in 1..Len(calls) : ~CallFailed(calls[i])

\* ---- reading the log back for one run_gs call
\* the whole argument vector stands in the log, one line per element, in the
\* lines that end where subprocess.run was called
ArgvLoggedBeforeSpawn(c) ==
    /\ c.spawnAt >= Len(c.argv) + 2
    /\ c.spawnAt <= Len(log)
    /\ log[c.spawnAt - Len(c.argv) - 1] = L("--- Running Ghostscript Command ---")
    /\ log[c.spawnAt - Len(c.argv)] = L("Command:")
    /\ \A k \in 1..Len(c.argv) : log[c.spawnAt - Len(c.argv) + k] = Line("  ", c.argv[k])

\* the lines written between the call of subprocess.run and the return
LinesOfRun(c) == (c.spawnAt + 1)..c.retAt

\* stdout and stderr entries stand in the log between spawn and return
OutputsLoggedBeforeReturn(c) ==
    /\ c.retAt <= Len(log)
    /\ \E a, b \in LinesOfRun(c) :
          /\ a + 1 < b /\ b + 1 <= c.retAt
          /\ log[a] = L("STDOUT:")
          /\ log[a + 1] = Line("stdout.strip()", StrArg("", c.result.stdout))
          /\ log[b] = L("STDERR:")
          /\ log[b + 1] = Line("stderr.strip()", StrArg("", c.result.stderr))

\* C13 (as stated): for every run_gs call, whatever its outcome, the argument
\* vector is in the log before the child is started and stdout and stderr
\* entries are in the log before the call returns.
C13_LoggedWhateverOutcome ==
    \A i \in 1..Len(calls) :
        ArgvLoggedBeforeSpawn(calls[i]) /\ OutputsLoggedBeforeReturn(calls[i])

\* C13 (amended): for every run_gs call the argument vector is in the log
\* before the child is started; when the child exited (code 0 or not) stdout
\* and stderr entries are in the log before the call returns; when
\* subprocess.run raised, the only line written before the return is the
\* exception's text, and no stdout or stderr entry.
C13_LoggedByOutcome ==
    \A i \in 1..Len(calls) :
        /\ ArgvLoggedBeforeSpawn(calls[i])
        /\ calls[i].result.kind = "exit" => OutputsLoggedBeforeReturn(calls[i])
        /\ calls[i].result.kind = "exc" =>
              /\ calls[i].retAt = calls[i].spawnAt + 1
              /\ calls[i].retAt <= Len(log)
              /\ log[calls[i].retAt] = Line("EXCEPTION: ", StrArg("", calls[i].result.exc))

\* C13 witness: in one run a merge call exited 0 and the compress call exited
\* with a nonzero code; the log holds both commands
C13_Witness ==
    /\ Len(calls) >= 2
    /\ ExitedZero(calls[1])
    /\ Last(calls).stage = "compress"
    /\ Last(calls).result.kind = "exit" /\ Last(calls).result.code = 1
    /\ Len(log) = Last(calls).retAt

\* C14 (as stated): a compress or archive invocation reads the output path of
\* the nearest earlier enabled stage; a disabled stage adds no message and
\* leaves the artifact alone; and once the run is past an enabled merge stage
\* the artifact is the merge output path.
C14_ArtifactThreading ==
    /\ \A i \in 1..Len(calls) :
          /\ calls[i].stage = "compress" =>
                /\ config.merge.enabled
                /\ Last(calls[i].argv) = StrArg("", config.merge.output.v)
          /\ calls[i].stage = "pdfa" =>
                /\ config.merge.enabled \/ config.compress.enabled
                /\ Last(calls[i].argv) =
                      StrArg("", IF config.compress.enabled THEN config.compress.output.v
                                 ELSE config.merge.output.v)
    /\ \A k \in 1..Len(messages) : config[messages[k].stage].enabled
    /\ (~config.compress.enabled /\ input_for_next_step.st = "set")
          => input_for_next_step.v = config.merge.output.v
    /\ (pc = "compress" /\ config.merge.enabled)
          => input_for_next_step = Str(config.merge.output.v)

CallsOf(stage) == {i \in 1..Len(calls) : calls[i].stage = stage}
EnabledStages == {s \in {"merge", "compress", "pdfa"} : config[s].enabled}

\* C15 (as stated): the engine is invoked at most once for each stage, so the
\* number of invocations never exceeds the number of enabled stages.
C15_SingleAttempt ==
    /\ \A s \in {"merge", "compress", "pdfa"} : Cardinality(CallsOf(s)) <= 1
    /\ Len(calls) <= Cardinality(EnabledStages)

HasUnrecognized(fs) == \E i \in 1..Len(fs) : fs[i].ty \notin {"str", "dict"}
WarningLogged(item) ==
    \E k \in 1..Len(log) :
        log[k] = Line("Entrada não reconhecida em 'arquivos': ", RawArg(item))

\* C17 (as stated): an unrecognized merge item puts nothing into a merge
\* argument vector, the vector holds the well-formed items' arguments in
\* order, the merge invocation is not refused because of the item, and a
\* warning for the item is in the log once the merge stage has invoked the
\* engine.
C17_UnrecognizedSkipped ==
    (merge_files.st = "set" /\ HasUnrecognized(merge_files.v)) =>
        \A i \in CallsOf("merge") :
            /\ AllStrings(calls[i].argv)
            /\ calls[i].result # TypeErrorOutcome
            /\ PageFlagsInPlace(calls[i].argv, merge_files.v)
            /\ (pc = "done" \/ pc = "compress") =>
                  \A k \in 1..Len(merge_files.v) :
                      (merge_files.v[k].ty \notin {"str", "dict"} /\ ~CallFailed(calls[i]))
                          => WarningLogged(merge_files.v[k])

\* C18 (as stated): the engine is never invoked for a stage whose output path
\* is missing or empty, nor for a later stage, and a finished run that came
\* to such a stage has shown one error report.
C18_OutputValidated ==
    /\ \A i \in 1..Len(calls) :
          /\ ValidOutput(config[calls[i].stage])
          /\ calls[i].stage \in {"compress", "pdfa"} =>
                (config.merge.enabled => ValidOutput(config.merge))
          /\ calls[i].stage = "pdfa" =>
                (config.compress.enabled => ValidOutput(config.compress))
    /\ (pc = "done" /\ ~OutputsPresent /\ \A i \in 1..Len(calls) : ~CallFailed(calls[i])
          /\ merge_files.st = "set" /\ merge_files.v # <<>> /\ pdfa_def_exists)
          => (Len(reports) = 1 /\ reports[1].kind = "error" /\ crashed = "")

\* C16: the file picker is consulted at most once, and only when the merge
\* stage is enabled and its configured input list is empty; when it returned
\* no path the run has ended with one error report, no engine invocation, no
\* message and no later stage entered.
C16_PickerFallback ==
    /\ pickerCalls <= 1
    /\ pickerCalls = 1 => (config.merge.enabled /\ config.merge.files = <<>>)
    /\ (pickerCalls = 1 /\ merge_files.v = <<>>) =>
          /\ pc = "done"
          /\ reports = <<showerror("Erro", NoMergeFilesText)>>
          /\ calls = <<>>
          /\ messages = <<>>
          /\ crashed = ""

\* C16 witness: the picker was asked and returned nothing while the compress
\* and PDF/A stages were enabled
C16_Witness ==
    /\ pickerCalls = 1
    /\ merge_files.st = "set" /\ merge_files.v = <<>>
    /\ config.compress.enabled /\ config.pdfa.enabled
    /\ pc = "done"

SuccessfulCalls == SelectSeq(calls, LAMBDA c : c.ok)

\* C19: in every state the messages are as many as the run_gs calls that
\* returned success so far, and the k-th message is the one of the k-th
\* successful call: its stage and that stage's output path.
C19_MessagesFollowSuccesses ==
    /\ Len(messages) = Len(SuccessfulCalls)
    /\ \A k \in 1..Len(messages) :
          /\ messages[k].stage = SuccessfulCalls[k].stage
          /\ messages[k].path = config[SuccessfulCalls[k].stage].output.v

\* C19 witness: three invocations succeeded, one for each stage, and then
\* none failed: three messages stand in the list
C19_Witness ==
    /\ Len(messages) = 3
    /\ Len(calls) = 3
    /\ messages[3].stage = "pdfa"
    /\ messages[1].path # messages[2].path
    /\ pc = "finish"

====
